---- MODULE Spec2Model ----
(***************************************************************************)
(* Model of contest-gen's recording engine: record_test and its nested     *)
(* RecorderPipe thread and get_files helper (src/contestgen/runner.py,     *)
(* with the standalone twin in src/contest-gen.py).                        *)
(*                                                                         *)
(* One recording is one run of the command-line program: the main flow     *)
(* (record_test), the interceptor thread (RecorderPipe.run) and the child  *)
(* process run concurrently; the working directory and the recipe file     *)
(* survive from one run to the next.                                       *)
(***************************************************************************)
EXTENDS Integers, Sequences, FiniteSets, TLC

(* ------------------------------ bounds -------------------------------- *)
\* recordings (program runs) in one behaviour of Spec
MaxRecordings == 2
\* operator lines typed in one behaviour, over all its recordings
MaxLines == 1
\* files written by children in one behaviour, over all its recordings
MaxNewFiles == 2
\* recordings in one behaviour of SpecSeq, where the operator stays silent
MaxSeqRecordings == 3
\* runs in the behaviours that follow the interceptor line by line
MaxPipeRecordings == 2
\* lines the operator types in those behaviours
MaxPipeLines == 3

(* --------------------------- input domains ---------------------------- *)
TestNames == {"t1", "t2"}
SeqTestNames == {"t1", "t2", "t3"}
\* executables that Popen can start, and one that it cannot
Startable == {"echo", "cat", "wc"}
\* programs that read their stdin until end-of-input and only then exit
ReadToEOF == {"wc"}
\* commands: executable first, then its arguments
Commands == {<<"echo", "hello">>, <<"cat">>, <<"nope">>}
PipeCommands == {<<"cat">>, <<"wc">>}
\* the operator's input stream: its k-th line
OperatorLine(k) == IF k % 2 = 1 THEN "ping" ELSE "pong"
\* what each program leaves behind: return code, stdout, stderr
Outcome(exe) == IF exe = "echo" THEN <<0, "hello\n", "">> ELSE <<2, "", "oops\n">>
\* file names a child may write, as the marker tokens followed by the rest
ChildFileNames == {<<"out.txt">>, <<"contest_", "out.txt">>}
ChildPaths == {[dir |-> ".", name |-> n] : n \in ChildFileNames}

VARIABLES
    fs,           \* working directory: path -> content of every regular file
    recipe,       \* the recipe file: [exists, executable, cases]
    nrec,         \* program runs started so far
    pc,           \* position of the main flow inside record_test
    ret,          \* how record_test ended: "" (running), RetOk, RetDuplicate, RetRaised
    test_name,    \* argument test_name
    command,      \* argument command: <<executable>> \o argv
    files,        \* the snapshot taken before the child is spawned
    new_files,    \* snapshot after the child minus the snapshot before
    test_matrix,  \* the recipe document held in memory
    child,        \* "none", "running", "exited"
    returncode,   \* proc.returncode
    child_out,    \* what the child wrote to its stdout and stderr pipes
    stdout,       \* communicate()'s result
    stderr,
    created,      \* number of files written by children so far
    chan,         \* everything written into the channel, in order
    ipc,          \* position of the interceptor thread inside run
    process,      \* recorder_pipe.process is set
    wpipe,        \* recorder_pipe.wpipe: "open" or "None"
    closes,       \* number of times close() ran
    s,            \* the interceptor's local s
    lines,        \* recorder_pipe.lines
    typed,        \* operator lines handed to input() so far
    log,          \* the main flow's filesystem and process events of this run
    fs0,          \* history: the working directory when this run started
    recipe0,      \* history: the recipe file when this run started
    recorded,     \* history: name and executable of every recording that returned 0
    late          \* history: lines written into the channel since the child exited

vars == <<fs, recipe, nrec, pc, ret, test_name, command, files, new_files,
          test_matrix, child, returncode, child_out, stdout, stderr, created,
          chan, ipc, process, wpipe, closes, s, lines, typed, log,
          fs0, recipe0, recorded, late>>

mainVars == <<pc, ret, test_name, command, files, new_files, test_matrix,
              stdout, stderr, log>>
childVars == <<child, returncode, child_out, created>>
pipeVars == <<chan, ipc, process, wpipe, closes, s, lines, typed>>
histVars == <<fs0, recipe0, recorded, late>>

(* --------------------------- return values ---------------------------- *)
RetOk == "0"
RetDuplicate == "is already a test case! Choose a new name!"
RetRaised == "raised OSError"
RetUsage == "You must specify --new-test-name <name> when generating a new test!"

(* ------------------------- paths and the marker ----------------------- *)
Marker == "contest_"

\* os.path.split(new_file)
os_path_split(path) == <<path.dir, path.name>>

\* os.path.join(dir_name, file_name)
os_path_join(dir_name, file_name) == [dir |-> dir_name, name |-> file_name]

\* os.path.join(dir_name, 'contest_' + file_name), from the split path
BaseFileOf(new_file) ==
    LET parts == os_path_split(new_file)
    IN  os_path_join(parts[1], <<Marker>> \o parts[2])

\* get_files('.'): the paths of all regular files below the working directory
get_files(tree) == DOMAIN tree

\* shutil.move(src, dst) on regular files: rename, replacing dst when it exists
shutil_move(tree, src, dst) ==
    [p \in (DOMAIN tree \ {src}) \cup {dst} |-> IF p = dst THEN tree[src] ELSE tree[p]]

\* the child opens path for writing: the file is created or replaced
WriteFile(tree, path, content) ==
    [p \in DOMAIN tree \cup {path} |-> IF p = path THEN content ELSE tree[p]]

EmptyTree == [p \in {} |-> 0]

(* ----------------------- ordered dictionaries ------------------------- *)
\* OrderedDict(): no keys; the value fields hold defaults until their key is set
OrderedDict ==
    [keys |-> << >>, executable |-> "", return_code |-> 0, argv |-> << >>,
     stdin |-> << >>, stdout |-> "", stderr |-> "", ofstreams |-> << >>]

HasKey(d, k) == \E i \in 1..Len(d.keys) : d.keys[i] = k

\* d[k] = ...: a new key goes last, an existing key keeps its place
WithKey(d, k) == IF HasKey(d, k) THEN d.keys ELSE Append(d.keys, k)

\* names of the test cases of a document, in order
CaseNames(doc) == [i \in 1..Len(doc.cases) |-> doc.cases[i].name]

\* test_name in test_matrix['test-cases']
InTestCases(doc, name) == \E i \in 1..Len(doc.cases) : doc.cases[i].name = name

\* test_matrix['test-cases'][name]
CaseOf(doc, name) ==
    LET i == CHOOSE j \in 1..Len(doc.cases) : doc.cases[j].name = name
    IN  doc.cases[i].case

\* faulty variant of SetCase: a new name is put in front of the existing entries
SetCaseInFront(doc, name, value) ==
    IF InTestCases(doc, name)
    THEN [doc EXCEPT !.cases = [i \in 1..Len(doc.cases) |->
              IF doc.cases[i].name = name
              THEN [name |-> name, case |-> value] ELSE doc.cases[i]]]
    ELSE [doc EXCEPT !.cases = <<[name |-> name, case |-> value]>> \o @]

\* test_matrix['test-cases'][name] = value
SetCase(doc, name, value) ==
    IF InTestCases(doc, name)
    THEN [doc EXCEPT !.cases = [i \in 1..Len(doc.cases) |->
              IF doc.cases[i].name = name
              THEN [name |-> name, case |-> value] ELSE doc.cases[i]]]
    ELSE [doc EXCEPT !.cases = Append(@, [name |-> name, case |-> value])]

\* '\n'.join(lines)
RECURSIVE Join(_)
Join(ls) ==
    IF Len(ls) = 0 THEN << >>
    ELSE IF Len(ls) = 1 THEN <<ls[1]>>
    ELSE <<ls[1], "\n">> \o Join(Tail(ls))

NoRecipe == [exists |-> FALSE, executable |-> "", cases |-> << >>]

\* yaml.load(open(configuration)): the document, keys and entries in file
\* order.  The loader and dumper are configured by
\* contestgen.utilities.configure_yaml, which is not among the sources at
\* hand; both are taken from the specification's "load ... preserving key
\* order" and "persist ... preserving key and entry order".
yaml_load(file) == [executable |-> file.executable, cases |-> file.cases]

\* yaml.dump(test_matrix, recipe): the file is rewritten wholesale
yaml_dump(doc) == [exists |-> TRUE, executable |-> doc.executable, cases |-> doc.cases]

NoDocument == [executable |-> "", cases |-> << >>]

(* ------------------- record_test: the pure pieces --------------------- *)
\* faulty variant of IsDuplicate: the name check is missing
IsDuplicateNever(file, name) == FALSE

\* os.path.exists(configuration) and test_name in test_matrix['test-cases']
IsDuplicate(file, name) == file.exists /\ InTestCases(yaml_load(file), name)

\* faulty variant of MergeCase: the executable is written into the case without
\* comparing it with the recipe's
MergeCaseAlwaysOverride(file, name, cmd) ==
    IF file.exists
    THEN SetCase(yaml_load(file), name,
                 [OrderedDict EXCEPT !.keys = WithKey(OrderedDict, "executable"),
                                     !.executable = cmd[1]])
    ELSE SetCase([executable |-> cmd[1], cases |-> << >>], name, OrderedDict)

\* lines 116-125: the document with an empty case under name, and the
\* executable recorded at top level (new recipe) or in the case when it differs
MergeCase(file, name, cmd) ==
    IF file.exists
    THEN LET loaded == yaml_load(file)
             fresh == SetCase(loaded, name, OrderedDict)
         IN  IF cmd[1] # loaded.executable
             THEN SetCase(fresh, name,
                          [OrderedDict EXCEPT !.keys = WithKey(OrderedDict, "executable"),
                                              !.executable = cmd[1]])
             ELSE fresh
    ELSE SetCase([executable |-> cmd[1], cases |-> << >>], name, OrderedDict)

\* lines 127-131: return-code always, argv when the command has arguments
WithReturnCodeArgv(case, rc, cmd) ==
    LET c1 == [case EXCEPT !.keys = WithKey(case, "return-code"), !.return_code = rc]
        argv == Tail(cmd)
    IN  IF argv # << >>
        THEN [c1 EXCEPT !.keys = WithKey(c1, "argv"), !.argv = argv]
        ELSE c1

\* line 132: if recorder_pipe.lines
LinesTruthy(ls) == ls # << >>

\* line 133: test_case['stdin'] = '\n'.join(recorder_pipe.lines)
WithStdin(case, ls) ==
    [case EXCEPT !.keys = WithKey(case, "stdin"), !.stdin = Join(ls)]

\* lines 134-137: stdout and stderr when non-empty
WithStdoutStderr(case, out, err) ==
    LET c1 == IF out # ""
              THEN [case EXCEPT !.keys = WithKey(case, "stdout"), !.stdout = out]
              ELSE case
    IN  IF err # ""
        THEN [c1 EXCEPT !.keys = WithKey(c1, "stderr"), !.stderr = err]
        ELSE c1

\* line 140: test_case['ofstreams'] = []
WithOfstreams(case) ==
    [case EXCEPT !.keys = WithKey(case, "ofstreams"), !.ofstreams = << >>]

\* lines 145-147: one entry appended, base-file then test-file
WithOfstreamEntry(case, base_file, new_file) ==
    [case EXCEPT !.ofstreams = Append(@, [base_file |-> base_file, test_file |-> new_file])]

(* ------------------------------ Init ---------------------------------- *)
Init ==
    /\ fs = EmptyTree
    /\ recipe = NoRecipe
    /\ nrec = 0
    /\ pc = "idle"
    /\ ret = ""
    /\ test_name = ""
    /\ command = << >>
    /\ files = {}
    /\ new_files = {}
    /\ test_matrix = NoDocument
    /\ child = "none"
    /\ returncode = 0
    /\ child_out = <<"", "">>
    /\ stdout = ""
    /\ stderr = ""
    /\ created = 0
    /\ chan = << >>
    /\ ipc = "unstarted"
    /\ process = FALSE
    /\ wpipe = "open"
    /\ closes = 0
    /\ s = ""
    /\ lines = << >>
    /\ typed = 0
    /\ log = << >>
    /\ fs0 = EmptyTree
    /\ recipe0 = NoRecipe
    /\ recorded = << >>
    /\ late = 0

(* ---------------------- record_test: main flow ------------------------ *)
\* the program is run with a recipe path, a test name and a command;
\* line 100: RecorderPipe() creates the pipe and starts the thread
RecordTest(name, cmd) ==
    /\ pc = "idle"
    /\ nrec' = nrec + 1
    /\ test_name' = name
    /\ command' = cmd
    /\ ipc' = "L62"
    /\ pc' = "L102"
    /\ fs0' = fs
    /\ recipe0' = recipe
    /\ UNCHANGED <<recorded, late>>
    /\ UNCHANGED <<fs, recipe, ret, files, new_files, test_matrix, stdout, stderr,
                   log, chan, process, wpipe, closes, s, lines, typed>>
    /\ UNCHANGED childVars

\* faulty variant of TestWithoutName: the recording is started under the
\* missing name
TestWithoutNameRecords(cmd) == RecordTest("", cmd)

\* test() of the standalone script: a recording is requested and no test name
\* is given ("" stands for the absent name): the message is returned and
\* record_test is never called
TestWithoutName(cmd) ==
    /\ pc = "idle"
    /\ nrec' = nrec + 1
    /\ test_name' = ""
    /\ command' = cmd
    /\ ret' = RetUsage
    /\ pc' = "done"
    /\ fs0' = fs
    /\ recipe0' = recipe
    /\ UNCHANGED <<recorded, late>>
    /\ UNCHANGED <<fs, recipe, files, new_files, test_matrix, stdout, stderr, log>>
    /\ UNCHANGED <<childVars, pipeVars>>

\* line 102: files = set(get_files('.'))
SnapshotBefore ==
    /\ pc = "L102"
    /\ files' = get_files(fs)
    /\ log' = Append(log, "before")
    /\ pc' = "L104"
    /\ UNCHANGED <<fs, recipe, nrec, ret, test_name, command, new_files,
                   test_matrix, stdout, stderr>>
    /\ UNCHANGED <<childVars, pipeVars>>
    /\ UNCHANGED histVars

\* line 104: Popen(command, stdin=recorder_pipe, stdout=PIPE, stderr=PIPE)
PopenStarts ==
    /\ pc = "L104"
    /\ command[1] \in Startable
    /\ child' = "running"
    /\ log' = Append(log, "spawn")
    /\ pc' = "L105"
    /\ UNCHANGED <<fs, recipe, nrec, ret, test_name, command, files, new_files,
                   test_matrix, stdout, stderr>>
    /\ UNCHANGED <<returncode, child_out, created, pipeVars>>
    /\ UNCHANGED histVars

\* faulty variant of PopenRaises: the error is swallowed and the flow goes on to the
\* snapshot and the recipe as if the child had run
PopenRaisesSwallowed ==
    /\ pc = "L104"
    /\ command[1] \notin Startable
    /\ child' = "exited"
    /\ pc' = "L106"
    /\ UNCHANGED <<fs, recipe, nrec, ret, test_name, command, files, new_files,
                   test_matrix, stdout, stderr, log>>
    /\ UNCHANGED <<returncode, child_out, created, pipeVars, histVars>>

\* line 104: Popen raises OSError, which nothing in record_test catches
PopenRaises ==
    /\ pc = "L104"
    /\ command[1] \notin Startable
    /\ ret' = RetRaised
    /\ pc' = "done"
    /\ UNCHANGED <<fs, recipe, nrec, test_name, command, files, new_files,
                   test_matrix, stdout, stderr, log>>
    /\ UNCHANGED <<childVars, pipeVars>>
    /\ UNCHANGED histVars

\* line 105: recorder_pipe.process = proc
SetProcess ==
    /\ pc = "L105"
    /\ process' = TRUE
    /\ pc' = "L106"
    /\ UNCHANGED <<fs, recipe, nrec, ret, test_name, command, files, new_files,
                   test_matrix, stdout, stderr, log>>
    /\ UNCHANGED <<childVars, chan, ipc, wpipe, closes, s, lines, typed>>
    /\ UNCHANGED histVars

\* faulty variant of ChildDone: the main flow also waits for the interceptor
\* thread to end
ChildDoneAndJoined == child = "exited" /\ ipc \in {"end", "eof"}

\* faulty variant of ChildDone: the main flow does not wait for the child
ChildDoneNoWait == child # "none"

\* line 106: proc.communicate() returns once the child has exited and both of
\* its output pipes have been read to the end
ChildDone == child = "exited"

\* line 109: set(get_files('.')) - files
NewFiles(tree, before) == get_files(tree) \ before

\* the orders in which a for loop may visit a set
Orders(set) ==
    {o \in [1..Cardinality(set) -> set] :
        \A i, j \in 1..Cardinality(set) : o[i] = o[j] => i = j}

\* lines 141-147, for the files of order in turn: each is moved to its
\* base-file path and gets one ofstream entry
RECURSIVE Relocate(_, _, _)
Relocate(tree, case, order) ==
    IF order = << >> THEN [tree |-> tree, case |-> case]
    ELSE LET new_file == Head(order)
             base_file == BaseFileOf(new_file)
         IN  Relocate(shutil_move(tree, new_file, base_file),
                      WithOfstreamEntry(case, base_file, new_file),
                      Tail(order))

Moves(n) == [i \in 1..n |-> "move"]

\* faulty variant of ReturnDuplicate: the name is checked after the new files have
\* been relocated
ReturnDuplicateAfterMoves ==
    /\ pc = "L106"
    /\ ChildDone
    /\ IsDuplicate(recipe, test_name)
    /\ stdout' = child_out[1]
    /\ stderr' = child_out[2]
    /\ new_files' = NewFiles(fs, files)
    /\ \E order \in Orders(new_files') :
           fs' = Relocate(fs, OrderedDict, order).tree
    /\ log' = log \o <<"drained", "after", "read">> \o Moves(Cardinality(new_files'))
    /\ ret' = RetDuplicate
    /\ pc' = "done"
    /\ UNCHANGED <<recipe, nrec, test_name, command, files, test_matrix>>
    /\ UNCHANGED <<childVars, pipeVars, histVars>>

\* lines 106-115: communicate() returns, the second snapshot is taken, and
\* the recipe, which exists, already holds test_name: the error string is
\* returned at once
ReturnDuplicate ==
    /\ pc = "L106"
    /\ ChildDone
    /\ IsDuplicate(recipe, test_name)
    /\ stdout' = child_out[1]
    /\ stderr' = child_out[2]
    /\ new_files' = NewFiles(fs, files)
    /\ log' = log \o <<"drained", "after", "read">>
    /\ ret' = RetDuplicate
    /\ pc' = "done"
    /\ UNCHANGED <<fs, recipe, nrec, test_name, command, files, test_matrix>>
    /\ UNCHANGED <<childVars, pipeVars, histVars>>

\* lines 106-131: communicate() returns, the second snapshot is taken, the
\* recipe is loaded (or started), an empty case is inserted under test_name,
\* and return-code and argv are set in it
LoadAndMerge ==
    /\ pc = "L106"
    /\ ChildDone
    /\ ~IsDuplicate(recipe, test_name)
    /\ stdout' = child_out[1]
    /\ stderr' = child_out[2]
    /\ new_files' = NewFiles(fs, files)
    /\ LET merged == MergeCase(recipe, test_name, command)
       IN  test_matrix' = SetCase(merged, test_name,
               WithReturnCodeArgv(CaseOf(merged, test_name), returncode, command))
    /\ log' = log \o <<"drained", "after">> \o (IF recipe.exists THEN <<"read">> ELSE << >>)
    /\ pc' = "L132"
    /\ UNCHANGED <<fs, recipe, nrec, ret, test_name, command, files>>
    /\ UNCHANGED <<childVars, pipeVars, histVars>>

\* line 132: if recorder_pipe.lines, read while the interceptor may still run
TestLines ==
    /\ pc = "L132"
    /\ pc' = IF LinesTruthy(lines) THEN "L133" ELSE "L134"
    /\ UNCHANGED <<fs, recipe, nrec, ret, test_name, command, files, new_files,
                   test_matrix, stdout, stderr, log>>
    /\ UNCHANGED <<childVars, pipeVars, histVars>>

\* line 133: the list is read a second time for the join
SetStdin ==
    /\ pc = "L133"
    /\ test_matrix' = SetCase(test_matrix, test_name,
           WithStdin(CaseOf(test_matrix, test_name), lines))
    /\ pc' = "L134"
    /\ UNCHANGED <<fs, recipe, nrec, ret, test_name, command, files, new_files,
                   stdout, stderr, log>>
    /\ UNCHANGED <<childVars, pipeVars, histVars>>

\* lines 134-151: stdout and stderr are set; when there are new files the
\* loop visits the set new_files in some order, moving each file and
\* recording it; the recipe file is rewritten and 0 is returned
FinishRecording(order) ==
    /\ pc = "L134"
    /\ order \in Orders(new_files)
    /\ LET c1 == WithStdoutStderr(CaseOf(test_matrix, test_name), stdout, stderr)
           done == IF new_files # {}
                   THEN Relocate(fs, WithOfstreams(c1), order)
                   ELSE [tree |-> fs, case |-> c1]
       IN  /\ fs' = done.tree
           /\ test_matrix' = SetCase(test_matrix, test_name, done.case)
           /\ recipe' = yaml_dump(test_matrix')
    /\ log' = log \o Moves(Len(order)) \o <<"write">>
    /\ ret' = RetOk
    /\ pc' = "done"
    /\ recorded' = Append(recorded, [name |-> test_name, executable |-> command[1]])
    /\ UNCHANGED <<nrec, test_name, command, files, new_files, stdout, stderr>>
    /\ UNCHANGED <<childVars, pipeVars, fs0, recipe0, late>>

\* lines 166-170: sys.exit(test()): the program ends, and the daemon thread,
\* the pipe and every local of record_test end with it
ProgramExit ==
    /\ pc = "done"
    /\ pc' = "idle"
    /\ ret' = ""
    /\ test_name' = ""
    /\ command' = << >>
    /\ files' = {}
    /\ new_files' = {}
    /\ test_matrix' = NoDocument
    /\ child' = "none"
    /\ returncode' = 0
    /\ child_out' = <<"", "">>
    /\ stdout' = ""
    /\ stderr' = ""
    /\ chan' = << >>
    /\ ipc' = "unstarted"
    /\ process' = FALSE
    /\ wpipe' = "open"
    /\ closes' = 0
    /\ s' = ""
    /\ lines' = << >>
    /\ log' = << >>
    /\ fs0' = EmptyTree
    /\ recipe0' = NoRecipe
    /\ late' = 0
    /\ UNCHANGED <<fs, recipe, nrec, created, typed, recorded>>

(* ------------------------- RecorderPipe.run --------------------------- *)
\* faulty variant of WaitForProcess: the thread does not wait for the handle
WaitForProcessNoWait ==
    /\ ipc = "L62"
    /\ ipc' = "L66"
    /\ UNCHANGED <<fs, recipe, nrec, mainVars, childVars, chan, process, wpipe, closes,
                   s, lines, typed>>
    /\ UNCHANGED histVars

\* lines 62-63: while self.process is None: pass
WaitForProcess ==
    /\ ipc = "L62"
    /\ process
    /\ ipc' = "L66"
    /\ UNCHANGED <<fs, recipe, nrec, mainVars, childVars, chan, process, wpipe, closes,
                   s, lines, typed>>
    /\ UNCHANGED histVars

\* self.process.poll() is None
Poll == IF child = "exited" THEN "exited" ELSE "None"

\* line 66: while self.wpipe is not None and self.process.poll() is None
LoopTest ==
    /\ ipc = "L66"
    /\ ipc' = IF wpipe # "None" /\ Poll = "None" THEN "L67" ELSE "end"
    /\ UNCHANGED <<fs, recipe, nrec, mainVars, childVars, chan, process, wpipe, closes,
                   s, lines, typed>>
    /\ UNCHANGED histVars

\* faulty variant of Input: the read is given up, with no line, when the
\* child has exited
InputWakesOnExit ==
    /\ ipc = "L67"
    /\ child = "exited"
    /\ s' = ""
    /\ ipc' = "L68"
    /\ UNCHANGED <<fs, recipe, nrec, mainVars, childVars, chan, process, wpipe, closes,
                   lines, typed>>
    /\ UNCHANGED histVars

\* line 67: s = input() returns the operator's next line
Input ==
    /\ ipc = "L67"
    /\ typed' = typed + 1
    /\ s' = OperatorLine(typed')
    /\ ipc' = "L68"
    /\ UNCHANGED <<fs, recipe, nrec, mainVars, childVars, chan, process, wpipe, closes,
                   lines>>
    /\ UNCHANGED histVars

\* line 67: the operator's stream is at its end: input() raises EOFError and
\* the thread dies with both ends of the pipe left open
InputEOF ==
    /\ ipc = "L67"
    /\ ipc' = "eof"
    /\ UNCHANGED <<fs, recipe, nrec, mainVars, childVars, chan, process, wpipe, closes,
                   s, lines, typed>>
    /\ UNCHANGED histVars

\* lines 68-69: self.wpipe.write(s + '\n'); self.wpipe.flush()
Write ==
    /\ ipc = "L68"
    /\ chan' = chan \o <<s, "\n">>
    /\ late' = IF child = "exited" THEN late + 1 ELSE late
    /\ ipc' = "L70"
    /\ UNCHANGED <<fs, recipe, nrec, mainVars, childVars, process, wpipe, closes,
                   s, lines, typed>>
    /\ UNCHANGED <<fs0, recipe0, recorded>>

\* line 70: self.lines.append(s)
AppendLine ==
    /\ ipc = "L70"
    /\ lines' = Append(lines, s)
    /\ ipc' = "L72"
    /\ UNCHANGED <<fs, recipe, nrec, mainVars, childVars, chan, process, wpipe, closes,
                   s, typed>>
    /\ UNCHANGED histVars

\* faulty variant of Check: the channel is left open when the child has exited
CheckNeverCloses ==
    /\ ipc = "L72"
    /\ ipc' = "L66"
    /\ UNCHANGED <<fs, recipe, nrec, mainVars, childVars, chan, process, wpipe, closes,
                   s, lines, typed>>
    /\ UNCHANGED histVars

\* lines 72, 78-79, 85-87: check(), and close() when the child has exited
Check ==
    /\ ipc = "L72"
    /\ IF Poll # "None"
       THEN /\ wpipe' = "None"
            /\ closes' = closes + 1
       ELSE UNCHANGED <<wpipe, closes>>
    /\ ipc' = "L66"
    /\ UNCHANGED <<fs, recipe, nrec, mainVars, childVars, chan, process, s, lines, typed>>
    /\ UNCHANGED histVars

(* --------------------------- the child -------------------------------- *)
\* the child opens a file for writing below the working directory
ChildWritesFile(path) ==
    /\ child = "running"
    /\ created' = created + 1
    /\ fs' = WriteFile(fs, path, nrec)
    /\ UNCHANGED <<recipe, nrec, mainVars, pipeVars, child, returncode, child_out>>
    /\ UNCHANGED histVars

\* the child's read of its stdin returns end-of-input once every write end
\* of the pipe is closed; the child closed its copy when it was spawned
\* (close_fds), which leaves the one held by recorder_pipe.wpipe
StdinAtEOF == wpipe = "None"

\* the child exits with a return code, having written its stdout and stderr;
\* a program that reads to the end of its stdin does not exit before that
ChildExits ==
    /\ child = "running"
    /\ command[1] \in ReadToEOF => StdinAtEOF
    /\ child' = "exited"
    /\ returncode' = Outcome(command[1])[1]
    /\ child_out' = <<Outcome(command[1])[2], Outcome(command[1])[3]>>
    /\ log' = Append(log, "exit")
    /\ UNCHANGED <<fs, recipe, nrec, pc, ret, test_name, command, files, new_files, test_matrix, stdout, stderr, pipeVars, created>>
    /\ UNCHANGED histVars

(* ---------------------------- behaviours ------------------------------ *)
Next ==
    \/ \E name \in TestNames, cmd \in Commands :
           nrec < MaxRecordings /\ RecordTest(name, cmd)
    \/ \E cmd \in Commands : nrec < MaxRecordings /\ TestWithoutName(cmd)
    \/ SnapshotBefore
    \/ PopenStarts
    \/ PopenRaises
    \/ SetProcess
    \/ ReturnDuplicate
    \/ LoadAndMerge
    \/ TestLines
    \/ SetStdin
    \/ \E order \in Orders(new_files) : FinishRecording(order)
    \/ ProgramExit
    \/ WaitForProcess
    \/ LoopTest
    \/ typed < MaxLines /\ Input
    \/ InputEOF
    \/ Write
    \/ AppendLine
    \/ Check
    \/ \E path \in ChildPaths : created < MaxNewFiles /\ ChildWritesFile(path)
    \/ ChildExits

Spec == Init /\ [][Next]_vars

\* longer sequences of recordings, with more names, while the operator types
\* nothing and leaves the input stream open
NextSeq ==
    \/ \E name \in SeqTestNames, cmd \in Commands :
           nrec < MaxSeqRecordings /\ RecordTest(name, cmd)
    \/ SnapshotBefore
    \/ PopenStarts
    \/ PopenRaises
    \/ SetProcess
    \/ ReturnDuplicate
    \/ LoadAndMerge
    \/ TestLines
    \/ \E order \in Orders(new_files) : FinishRecording(order)
    \/ ProgramExit
    \/ WaitForProcess
    \/ LoopTest
    \/ \E path \in ChildPaths : created < MaxNewFiles /\ ChildWritesFile(path)
    \/ ChildExits

SpecSeq == Init /\ [][NextSeq]_vars

\* the interceptor followed line by line: recordings under one name of
\* programs that create no files, while the operator types several lines
NextPipe ==
    \/ \E cmd \in PipeCommands :
           nrec < MaxPipeRecordings /\ RecordTest("t1", cmd)
    \/ SnapshotBefore
    \/ PopenStarts
    \/ SetProcess
    \/ ReturnDuplicate
    \/ LoadAndMerge
    \/ TestLines
    \/ SetStdin
    \/ FinishRecording(<< >>)
    \/ ProgramExit
    \/ WaitForProcess
    \/ LoopTest
    \/ typed < MaxPipeLines /\ Input
    \/ InputEOF
    \/ Write
    \/ AppendLine
    \/ Check
    \/ ChildExits

SpecPipe == Init /\ [][NextPipe]_vars

\* the steps of the main thread inside record_test
MainStep ==
    \/ SnapshotBefore
    \/ PopenStarts
    \/ SetProcess
    \/ ReturnDuplicate
    \/ LoadAndMerge
    \/ TestLines
    \/ SetStdin
    \/ FinishRecording(<< >>)

\* the main thread is scheduled fairly: it takes its next step whenever that
\* step stays possible; nothing is assumed of the interceptor thread, of the
\* operator or of the child
SpecPipeFairMain == SpecPipe /\ WF_vars(MainStep)

\* the steps the interceptor thread takes on its own; the two outcomes of
\* input() are the operator's to decide
InterceptorStep ==
    \/ WaitForProcess
    \/ LoopTest
    \/ Write
    \/ AppendLine
    \/ Check

\* both threads are scheduled fairly and a child that can exit does exit
SpecPipeFair ==
    SpecPipe /\ WF_vars(MainStep) /\ WF_vars(InterceptorStep) /\ WF_vars(ChildExits)

(* ----------------------------- properties ------------------------------ *)
Range(seq) == {seq[i] : i \in 1..Len(seq)}

\* some event a stands before position i of the log
Earlier(a, i) == \E j \in 1..(i - 1) : log[j] = a

Returned(value) == pc = "done" /\ ret = value

\* the case this run persisted under test_name
PersistedCase == CaseOf(recipe, test_name)

NotNewline(token) == token # "\n"

\* the lines of a newline-joined text
SplitLines(text) == SelectSeq(text, NotNewline)

\* the lines written into the channel, without their terminators
ChanLines == [i \in 1..(Len(chan) \div 2) |-> chan[2 * i - 1]]

Occurrences(doc, name) ==
    Cardinality({i \in 1..Len(doc.cases) : doc.cases[i].name = name})

\* C1: when test_name is already in the recipe at the start of a run, the
\* run leaves the recipe file as it was (same entries in the same order, the
\* entry under test_name unchanged, never rewritten), the name still occurs
\* once, and, the command being one that can be started, record_test
\* returns the duplicate-name error string.
C1_DuplicateRejected ==
    (pc # "idle" /\ recipe0.exists /\ InTestCases(recipe0, test_name))
        => /\ recipe = recipe0
           /\ "write" \notin Range(log)
           /\ Occurrences(recipe, test_name) = 1
           /\ (pc = "done" /\ command[1] \in Startable) => ret = RetDuplicate

C1_Witness ==
    /\ Returned(RetDuplicate)
    /\ Len(recipe0.cases) = 2
    /\ HasKey(CaseOf(recipe, test_name), "ofstreams")
    /\ new_files # {}

\* C2 (as stated): after a successful recording there is exactly one
\* ofstream entry per new file, with base-file in the same directory and the
\* marker in front of the file name; every new path is gone and every
\* base-file exists.
C2_EveryNewFileRelocated ==
    Returned(RetOk) =>
        LET ofs == PersistedCase.ofstreams
        IN  /\ Len(ofs) = Cardinality(new_files)
            /\ \A f \in new_files : \E i \in 1..Len(ofs) :
                   /\ ofs[i].test_file = f
                   /\ ofs[i].base_file = [dir |-> f.dir, name |-> <<Marker>> \o f.name]
            /\ \A f \in new_files : f \notin DOMAIN fs
            /\ \A i \in 1..Len(ofs) : ofs[i].base_file \in DOMAIN fs

\* C3 (as stated): when the duplicate-name error is returned, the new files
\* have been moved to their base-file paths.
C3_DuplicateAfterRelocation ==
    Returned(RetDuplicate) =>
        \A f \in new_files : f \notin DOMAIN fs /\ BaseFileOf(f) \in DOMAIN fs

\* C3 (amended): the duplicate-name error is returned after the child has
\* run and exited, and before any relocation: no file has been moved, and
\* every new file is still at its original path as the child left it.
C3_DuplicateBeforeRelocation ==
    Returned(RetDuplicate) =>
        /\ "exit" \in Range(log)
        /\ "move" \notin Range(log)
        /\ \A f \in new_files : f \in DOMAIN fs /\ fs[f] = nrec
        /\ \A f \in DOMAIN fs0 : f \in DOMAIN fs

C3_Witness == Returned(RetDuplicate) /\ Cardinality(new_files) = 2

\* C4 (as stated): record_test always ends by returning 0 or an error
\* string, never by an exception.
C4_NoExceptionEscapes ==
    pc = "done" => ret \in {RetOk, RetDuplicate, RetUsage}

\* C5: in a recording whose executable cannot be started, nothing in the working
\* directory changes and the recipe file is neither read, created nor
\* rewritten.
C5_SpawnFailureTouchesNothing ==
    (pc # "idle" /\ test_name # "" /\ command[1] \notin Startable)
        => /\ fs = fs0
           /\ recipe = recipe0
           /\ Range(log) \cap {"read", "move", "write"} = {}
           /\ (pc = "done" => ret = RetRaised)

C5_Witness ==
    /\ Returned(RetRaised)
    /\ recipe.exists
    /\ fs # EmptyTree

\* C6 (as stated): the stdin of the persisted case is exactly the sequence
\* of lines the interceptor wrote into the channel.
C6_RecordedStdinIsForwarded ==
    Returned(RetOk) =>
        (IF HasKey(PersistedCase, "stdin") THEN SplitLines(PersistedCase.stdin) ELSE << >>)
            = ChanLines

\* C7: the recipe's executable is that of the first recording that returned
\* 0, and a case holds the key executable exactly when its command's
\* executable differs from it, with that executable as its value.
C7_ExecutableOverride ==
    recipe.exists =>
        /\ Len(recipe.cases) = Len(recorded)
        /\ recipe.executable = recorded[1].executable
        /\ \A i \in 1..Len(recorded) :
               LET c == recipe.cases[i].case
               IN  /\ recipe.cases[i].name = recorded[i].name
                   /\ HasKey(c, "executable") <=> recorded[i].executable # recipe.executable
                   /\ HasKey(c, "executable") => c.executable = recorded[i].executable

C7_Witness ==
    /\ Len(recipe.cases) = 3
    /\ recorded[2].executable # recorded[1].executable
    /\ recorded[3].executable = recorded[1].executable
    /\ HasKey(recipe.cases[2].case, "executable")
    /\ ~HasKey(recipe.cases[3].case, "executable")

\* C8: names in the recipe are unique; a recording that returns 0 leaves
\* the earlier entries as they were, in their order, and puts the new name
\* after them; any other ending leaves the recipe file as it was.
C8_AppendOnly ==
    /\ \A i, j \in 1..Len(recipe.cases) :
           recipe.cases[i].name = recipe.cases[j].name => i = j
    /\ Returned(RetOk) =>
           /\ ~InTestCases(recipe0, test_name)
           /\ Len(recipe.cases) = Len(recipe0.cases) + 1
           /\ SubSeq(recipe.cases, 1, Len(recipe0.cases)) = recipe0.cases
           /\ recipe.cases[Len(recipe.cases)].name = test_name
           /\ recipe0.exists => recipe.executable = recipe0.executable
    /\ (pc = "done" /\ ret # RetOk) => recipe = recipe0

C8_Witness ==
    /\ Returned(RetOk)
    /\ Len(recipe0.cases) = 2
    /\ recipe0.cases[1].name = "t3"
    /\ HasKey(recipe0.cases[2].case, "ofstreams")
    /\ recipe0.cases[1].case.keys # recipe.cases[3].case.keys

\* C9 (as stated): the persisted case holds return-code, and each optional
\* key exactly when its data is non-empty: stdin iff a line was forwarded,
\* ofstreams iff a new file was observed, argv iff the command has
\* arguments, stdout and stderr iff the captured text is non-empty.
C9_OptionalKeys ==
    Returned(RetOk) =>
        /\ HasKey(PersistedCase, "return-code")
        /\ HasKey(PersistedCase, "stdin") <=> chan # << >>
        /\ HasKey(PersistedCase, "ofstreams") <=> new_files # {}
        /\ HasKey(PersistedCase, "argv") <=> Len(command) > 1
        /\ HasKey(PersistedCase, "stdout") <=> child_out[1] # ""
        /\ HasKey(PersistedCase, "stderr") <=> child_out[2] # ""

\* C10: the first snapshot is taken before the child is spawned and is the
\* directory as the run found it; the second is taken after the child has
\* exited and its output has been drained; every move and every read or
\* write of the recipe comes after the second snapshot.
C10_SnapshotOrder ==
    /\ "before" \in Range(log) => files = get_files(fs0)
    /\ \A i \in 1..Len(log) :
           /\ log[i] = "spawn" => Earlier("before", i)
           /\ log[i] = "exit" => Earlier("spawn", i) /\ ~Earlier("after", i)
           /\ log[i] = "after" =>
                  Earlier("before", i) /\ Earlier("exit", i) /\ Earlier("drained", i)
           /\ log[i] \in {"read", "move", "write"} => Earlier("after", i)

C10_Witness ==
    /\ Returned(RetOk)
    /\ {"read", "move", "write"} \subseteq Range(log)

\* C11: a run that asks for a recording without a test name ends with the
\* usage message and nothing else has happened: no interceptor thread was
\* started, no child was spawned, no snapshot, recipe read, move or write
\* took place, and the working directory and the recipe file are as found.
C11_MissingNameNoSideEffects ==
    (pc # "idle" /\ test_name = "")
        => /\ Returned(RetUsage)
           /\ ipc = "unstarted"
           /\ child = "none"
           /\ log = << >>
           /\ chan = << >> /\ lines = << >>
           /\ fs = fs0
           /\ recipe = recipe0

C11_Witness ==
    /\ Returned(RetUsage)
    /\ test_name = ""
    /\ recipe.exists
    /\ fs # EmptyTree

\* C12: while recorder_pipe.process is unset the interceptor thread, started
\* or not, is still before its relay loop: it has read no operator line,
\* has written nothing into the channel, and the line buffer is empty.
C12_NoRelayBeforeHandle ==
    ~process =>
        /\ ipc \in {"unstarted", "L62"}
        /\ s = ""
        /\ chan = << >>
        /\ lines = << >>

C12_Witness ==
    /\ ~process
    /\ ipc = "L62"
    /\ child = "running"
    /\ pc = "L105"

\* the step is the end of the program, which ends the thread and the pipe
Exiting == pc = "done" /\ pc' = "idle"

\* C13: the check that follows each forwarded line closes the channel
\* exactly when the child has exited, and the thread then leaves its loop;
\* once the child has exited at most one further line is written into the
\* channel, nothing is written after the close, and the channel is closed
\* at most once.
C13_CloseAfterExit ==
    /\ [](/\ late <= 1
          /\ closes <= 1
          /\ wpipe = "None" => (child = "exited" /\ closes = 1 /\ ipc \in {"L66", "end"}))
    /\ [][(ipc = "L72" /\ ipc' # "L72" /\ ~Exiting) =>
              IF child = "exited"
              THEN wpipe' = "None" /\ closes' = closes + 1
              ELSE wpipe' = wpipe /\ closes' = closes]_vars
    /\ [][(wpipe = "None" /\ ~Exiting) =>
              /\ chan' = chan /\ lines' = lines /\ wpipe' = wpipe
              /\ ipc' \in {ipc, "end"}]_vars

C13_Witness ==
    /\ child = "exited"
    /\ late = 1
    /\ Len(lines) = 2
    /\ closes = 1
    /\ wpipe = "None"
    /\ ipc = "end"

\* C14: while the thread is parked on input() both ends of the channel are
\* open, whether or not the child is still alive, and the thread leaves
\* the read only when the operator's stream delivers a line or its end;
\* the exit of the child does not wake it.
C14_ParkedOnRead ==
    /\ [](ipc = "L67" => (wpipe = "open" /\ closes = 0))
    /\ [][(ipc = "L67" /\ ipc' # "L67" /\ ~Exiting) =>
              (typed' = typed + 1 \/ ipc' = "eof")]_vars
    /\ [][(ipc = "L67" /\ child' # child /\ ~Exiting) => ipc' = "L67"]_vars

\* the child exited after the loop test that followed a forwarded line had
\* passed, and the thread is parked on the next read
C14_Witness ==
    /\ ipc = "L67"
    /\ child = "exited"
    /\ wpipe = "open"
    /\ Len(lines) = 1
    /\ late = 0

\* C15: record_test returns 0 or the duplicate-name error only after the
\* child has exited, and, the main thread being scheduled fairly, once the
\* child has exited record_test does return one of the two, whatever the
\* interceptor thread does or fails to do.
C15_ReturnsOnceChildExits ==
    /\ []((pc = "done" /\ ret \in {RetOk, RetDuplicate}) => child = "exited")
    /\ (child = "exited") ~> (pc = "done" /\ ret \in {RetOk, RetDuplicate})

\* record_test has returned while the thread is still parked on input()
C15_Witness ==
    /\ Returned(RetDuplicate)
    /\ ipc = "L67"
    /\ wpipe = "open"

\* C16 (as stated): the relocation at the end of a recording leaves every
\* file of the first snapshot in place with its content, so the base-file
\* kept for an earlier case survives a later recording whose child creates
\* the same original path again.
C16_SnapshotFilesKept ==
    [][(pc = "L134" /\ pc' = "done") =>
          \A p \in files :
              p \in DOMAIN fs => (p \in DOMAIN fs' /\ fs'[p] = fs[p])]_vars

\* C17 (as stated): when the operator's stream ends while a child that
\* reads its stdin to the end is still running, the child gets end-of-input
\* and exits, and record_test returns.
C17_EndOfInputReachesChild ==
    (ipc = "eof" /\ child = "running" /\ command[1] \in ReadToEOF)
        ~> (StdinAtEOF /\ child = "exited" /\ pc = "done")

====
